---- MODULE Spec2Model ----
(***************************************************************************)
(* Broker statement ingestion of gelbermats/rebalancer:                    *)
(*   - utils/merge_csv_tables.py : find_table_sections, the section        *)
(*     locator, and merge_csv_tables, its command line driver;             *)
(*   - app/modules/importer/service.py : BrokerStatementParser, which      *)
(*     turns a loaded sheet into a BrokerStatement;                        *)
(*   - app/storage.py : DataManager, the in-memory stores and id counters; *)
(*   - app/modules/marketdata/service.py : MarketDataService.              *)
(*                                                                         *)
(* Text.  TLC strings are atomic, so a Python str is a sequence of         *)
(* lexemes; every literal the code searches for is one lexeme or a         *)
(* sequence of lexemes, and the cell texts are built from the same         *)
(* lexemes, so `in`, startswith, ==, strip and re.sub act on lexemes the   *)
(* way the code acts on characters.  Quantity texts are sequences of       *)
(* single characters.  The module is ASCII: the Cyrillic literals of the   *)
(* source are transliterated                                               *)
(*   "Emitent"  header token          "Itogo"  total                       *)
(*   " po razdelu" / " po schetu"     by section / by account              *)
(*   "Data sostavleniya"              prepared on                          *)
(*   "Svedeniya o cennyh bumagah"     securities section title             *)
(*   "kod scheta: "  account code     "No"  the numero sign                *)
(*   "obligac" "akc" "pif"            bond, stock and fund markers         *)
(*                                                                         *)
(* Indices are 0-based as in the source: row i of a DataFrame df is        *)
(* df[i + 1] here.  A value that may be None is a sequence of length 0     *)
(* (None) or 1.                                                            *)
(***************************************************************************)
EXTENDS Integers, Sequences, FiniteSets, TLC

VARIABLES
    file,             \* the sheet handed to the running operation
    df,               \* BrokerStatementParser.df (self.df); the locator's df
    input,            \* the argument of the last parse_bytes call
    outcome,          \* what the last parse_bytes call returned or raised
    first,            \* outcome of the first parse of the sheet under test
    reused,           \* the instance has parsed another upload since then
    base,             \* outcome kept while a defective row is taken out
    removed,          \* the text of the row taken out of the sheet
    i,                \* find_table_sections: index of the row the loop is at
    sections,         \* find_table_sections: the spans appended so far
    current_section,  \* find_table_sections: label of the open section
    current_start,    \* find_table_sections: first data row of the open section
    merged,           \* what merge_csv_tables wrote or raised
    pc,               \* position of the running operation
    row_data,         \* the row handed to _create_position_from_row
    position,         \* what _create_position_from_row returned
    summary,          \* what ImportService.validate_statement returned
    managers,         \* the DataManager instances
    issued,           \* per instance and kind: ids handed out since the
                      \* construction or the last clear_all
    last,             \* the last DataManager call and what it returned
    ops,              \* number of DataManager calls made
    response,         \* what MOEXAdapter.get_securities returns
    synced,           \* what sync_securities_from_moex returned or raised
    request,          \* the request the security-info endpoint is serving
    session,          \* MOEXAdapter.session of the service of that request
    info,             \* what service.get_security_info returned
    reply,            \* what the endpoint answered or is about to answer
    served,           \* number of requests answered
    created           \* per portfolio id: create_position calls made for it

ingestVars ==
    <<file, df, input, outcome, first, reused, base, removed, i, sections,
      current_section, current_start, merged, pc, row_data, position>>

storageVars == <<managers, issued, last, ops, response, synced>>

serviceVars == <<request, session, info, reply, served, created>>

vars == <<ingestVars, summary, storageVars, serviceVars>>

-----------------------------------------------------------------------------
(* Bounds of the model.                                                    *)

MaxBody == 3        \* rows below the head of a sheet given to the parser
MaxLocRows == 4     \* rows of a grid given to find_table_sections
MaxQtyLen == 3      \* characters of an enumerated quantity text
MaxOps == 4         \* DataManager calls in one run
MaxEntries == 3     \* entries of an adapter response
MaxTyped == 2       \* typed rows of a sheet whose statement is summarised
MaxRequests == 2    \* requests the security-info endpoint serves

-----------------------------------------------------------------------------
(* Python and pandas primitives.                                           *)

NaN == <<"<NaN>">>            \* an empty cell: float('nan')
None == <<>>                  \* Optional value: None
Some(x) == <<x>>

isna(cell) == cell = NaN
notna(cell) == cell # NaN
str(cell) == IF isna(cell) THEN <<"nan">> ELSE cell
isinstance_str(cell) == cell # NaN

IsSpace(c) == c \in {" ", "\t"}

RECURSIVE lstrip(_)
lstrip(s) == IF s # <<>> /\ IsSpace(Head(s)) THEN lstrip(Tail(s)) ELSE s

RECURSIVE rstrip(_)
rstrip(s) ==
    IF s # <<>> /\ IsSpace(s[Len(s)]) THEN rstrip(SubSeq(s, 1, Len(s) - 1)) ELSE s

strip(s) == rstrip(lstrip(s))

\* pat in s
Contains(pat, s) ==
    \E k \in 1..(Len(s) - Len(pat) + 1) : SubSeq(s, k, k + Len(pat) - 1) = pat

startswith(s, pat) == Len(s) >= Len(pat) /\ SubSeq(s, 1, Len(pat)) = pat
endswith(s, pat) ==
    Len(s) >= Len(pat) /\ SubSeq(s, Len(s) - Len(pat) + 1, Len(s)) = pat

\* str.lower(), lexeme by lexeme
LowerLexeme(c) ==
    CASE c = "Obligac" -> "obligac"
      [] c = "OBLIGAC" -> "obligac"
      [] c = "Akc" -> "akc"
      [] c = "AKC" -> "akc"
      [] c = "PIF" -> "pif"
      [] c = "Pif" -> "pif"
      [] c = "Gosudarstvennaya" -> "gosudarstvennaya"
      [] c = "Obychnaya" -> "obychnaya"
      [] c = "ETF" -> "etf"
      [] c = "Fund" -> "fund"
      [] OTHER -> c

lower(s) == [k \in 1..Len(s) |-> LowerLexeme(s[k])]

\* re.sub(r'\s+', '', s)
RECURSIVE remove_whitespace(_)
remove_whitespace(s) ==
    IF s = <<>> THEN <<>>
    ELSE IF IsSpace(Head(s)) THEN remove_whitespace(Tail(s))
    ELSE <<Head(s)>> \o remove_whitespace(Tail(s))

DecimalDigits == {"0", "1", "2", "3", "4", "5", "6", "7", "8", "9"}
\* str.isdigit() also accepts digits int() rejects, such as superscript two
OtherDigits == {"^2"}

isdigit(s) == s # <<>> /\ \A k \in 1..Len(s) : s[k] \in DecimalDigits \cup OtherDigits

\* int(s) raises ValueError on a digit that is not decimal
int_raises(s) == \E k \in 1..Len(s) : s[k] \notin DecimalDigits

DigitValue(c) ==
    CASE c = "0" -> 0 [] c = "1" -> 1 [] c = "2" -> 2 [] c = "3" -> 3
      [] c = "4" -> 4 [] c = "5" -> 5 [] c = "6" -> 6 [] c = "7" -> 7
      [] c = "8" -> 8 [] c = "9" -> 9

RECURSIVE int(_)
int(s) ==
    IF s = <<>> THEN 0
    ELSE 10 * int(SubSeq(s, 1, Len(s) - 1)) + DigitValue(s[Len(s)])

\* df.iloc[r] and df.iloc[r, c], 0-based
iloc(d, r) == d[r + 1]
cell_at(d, r, c) == d[r + 1][c + 1]

-----------------------------------------------------------------------------
(* app/storage.py: DataManager.  A dict is the sequence of its             *)
(* <<key, value>> items in insertion order.                                *)

dict_keys(dct) == {dct[k][1] : k \in 1..Len(dct)}
dict_has(dct, key) == key \in dict_keys(dct)
dict_get(dct, key, default) ==
    IF dict_has(dct, key)
    THEN dct[CHOOSE k \in 1..Len(dct) : dct[k][1] = key][2]
    ELSE default
\* dct[key] = value: a new key goes last, an old key keeps its place
dict_set(dct, key, value) ==
    IF dict_has(dct, key)
    THEN [k \in 1..Len(dct) |->
             IF dct[k][1] = key THEN <<key, value>> ELSE dct[k]]
    ELSE Append(dct, <<key, value>>)
dict_values(dct) == [k \in 1..Len(dct) |-> dct[k][2]]

\* the models the stores hold
Security(secid, name, isin, engine, market, board) ==
    [secid |-> secid, name |-> name, isin |-> isin, engine |-> engine,
     market |-> market, board |-> board, is_active |-> TRUE]
Quote(secid, price) == [secid |-> secid, price |-> price]
Portfolio(id) == [id |-> id]
Position(id, portfolio_id) == [id |-> id, portfolio_id |-> portfolio_id]

\* DataManager.__init__
DataManager ==
    [securities_store |-> <<>>, quotes_store |-> <<>>,
     portfolios_store |-> <<>>, positions_store |-> <<>>,
     next_security_id |-> 1, next_quote_id |-> 1,
     next_portfolio_id |-> 1, next_position_id |-> 1]

get_security(self, secid) == dict_get(self.securities_store, secid, None)
add_security(self, security) ==
    [self EXCEPT !.securities_store = dict_set(@, security.secid, security)]
get_all_securities(self) == dict_values(self.securities_store)
security_exists(self, secid) == dict_has(self.securities_store, secid)

get_quotes(self, secid) == dict_get(self.quotes_store, secid, <<>>)
add_quote(self, quote) ==
    LET store == IF dict_has(self.quotes_store, quote.secid)
                 THEN self.quotes_store
                 ELSE dict_set(self.quotes_store, quote.secid, <<>>)
    IN  [self EXCEPT !.quotes_store =
            dict_set(store, quote.secid,
                     Append(dict_get(store, quote.secid, <<>>), quote))]
get_latest_quote(self, secid) ==
    LET quotes == dict_get(self.quotes_store, secid, <<>>) IN
    IF quotes # <<>> THEN Some(quotes[Len(quotes)]) ELSE None

get_portfolio(self, portfolio_id) ==
    dict_get(self.portfolios_store, portfolio_id, None)
add_portfolio(self, portfolio) ==
    [self EXCEPT !.portfolios_store = dict_set(@, portfolio.id, portfolio)]
get_all_portfolios(self) == dict_values(self.portfolios_store)

get_position(self, position_id) ==
    dict_get(self.positions_store, position_id, None)
add_position(self, pos) ==
    [self EXCEPT !.positions_store = dict_set(@, pos.id, pos)]
get_all_positions(self) == dict_values(self.positions_store)
get_positions_for_portfolio(self, portfolio_id) ==
    SelectSeq(dict_values(self.positions_store),
              LAMBDA pos : pos.portfolio_id = portfolio_id)

\* the get_next_*_id methods: the value returned and the instance afterwards
get_next_portfolio_id(self) ==
    [result |-> self.next_portfolio_id,
     self |-> [self EXCEPT !.next_portfolio_id = @ + 1]]
get_next_position_id(self) ==
    [result |-> self.next_position_id,
     self |-> [self EXCEPT !.next_position_id = @ + 1]]
get_next_security_id(self) ==
    [result |-> self.next_security_id,
     self |-> [self EXCEPT !.next_security_id = @ + 1]]

\* a variant that draws quote ids from the security counter
get_next_quote_id_shared(self) ==
    [result |-> self.next_security_id,
     self |-> [self EXCEPT !.next_security_id = @ + 1]]

get_next_quote_id(self) ==
    [result |-> self.next_quote_id,
     self |-> [self EXCEPT !.next_quote_id = @ + 1]]

\* a variant that leaves the quote counter as it is
clear_all_keeps_quote_counter(self) ==
    [self EXCEPT !.securities_store = <<>>, !.quotes_store = <<>>,
                 !.portfolios_store = <<>>, !.positions_store = <<>>,
                 !.next_security_id = 1,
                 !.next_portfolio_id = 1, !.next_position_id = 1]

clear_all(self) ==
    [self EXCEPT !.securities_store = <<>>, !.quotes_store = <<>>,
                 !.portfolios_store = <<>>, !.positions_store = <<>>,
                 !.next_security_id = 1, !.next_quote_id = 1,
                 !.next_portfolio_id = 1, !.next_position_id = 1]

\* the DataManager instances of the model, and the ids handed out
Instances == {1, 2}
NoneIssued == [security |-> 0, quote |-> 0, portfolio |-> 0, position |-> 0]
NoCall == [op |-> "none", dm |-> 0, result |-> None, before |-> DataManager]

StorageIdle ==
    /\ managers = [d \in Instances |-> DataManager]
    /\ issued = [d \in Instances |-> NoneIssued]
    /\ last = NoCall
    /\ ops = 0
    /\ response = <<>>
    /\ synced = None

\* no request served, no portfolio service call made
ServiceIdle ==
    /\ request = None
    /\ session = None
    /\ info = None
    /\ reply = None
    /\ served = 0
    /\ created = <<>>

-----------------------------------------------------------------------------
(* app/modules/importer/models.py and service.py: BrokerStatementParser.   *)

HEADERS ==
    << <<"Emitent">>, <<"Naimenovanie cennoj bumagi">>,
       <<"Identifikacionnyj nomer">>, <<"ISIN">>,
       <<"Valyuta/ nomer/ seriya">>, <<"Ostatok (sht.)">> >>

SecurityPosition(issuer, security_type, trading_code, isin, currency, quantity) ==
    [issuer |-> issuer, security_type |-> security_type,
     trading_code |-> trading_code, isin |-> isin,
     currency |-> currency, quantity |-> quantity]

is_bond(pos) == Contains(<<"obligac">>, lower(pos.security_type))
is_stock(pos) == Contains(<<"akc">>, lower(pos.security_type))
\* a variant that looks for the fund marker inside the text
is_etf_contains(pos) == Contains(<<"pif">>, lower(pos.security_type))

is_etf(pos) == lower(pos.security_type) = <<"pif">>

\* the column k of the row as stripped text, or the default when the row is
\* short or the cell is empty
StrippedOr(row, k, default) ==
    IF Len(row) > k /\ ~isna(row[k + 1]) THEN strip(str(row[k + 1])) ELSE default

\* a variant that forgets the text "nan"
NormalizeCurrencyEmptyOnly(currency) ==
    IF currency # None /\ currency[1] # <<>> THEN currency ELSE None

\* currency if currency and currency != 'nan' else None
NormalizeCurrency(currency) ==
    IF currency # None /\ currency[1] # <<>> /\ currency[1] # <<"nan">>
    THEN currency ELSE None

\* a variant that leaves the whitespace inside the text
ParseQuantityKeepsSpaces(quantity_str) ==
    LET q == quantity_str IN
    IF isdigit(q) THEN (IF int_raises(q) THEN None ELSE Some(int(q))) ELSE Some(0)

\* quantity_str -> quantity; None when int() raises
ParseQuantity(quantity_str) ==
    LET q == remove_whitespace(quantity_str) IN
    IF isdigit(q) THEN (IF int_raises(q) THEN None ELSE Some(int(q))) ELSE Some(0)

\* a variant that lets a quantity of zero pass
RequiredFieldsMissingLax(issuer, isin, quantity) ==
    issuer = <<>> \/ isin = <<>> \/ quantity < 0

\* if not issuer or not isin or quantity <= 0: return None
RequiredFieldsMissing(issuer, isin, quantity) ==
    issuer = <<>> \/ isin = <<>> \/ quantity <= 0

create_position_from_row(row) ==
    IF Len(row) = 0 THEN None          \* row_data.iloc[0] raises, caught
    ELSE
    LET issuer == IF ~isna(row[1]) THEN strip(str(row[1])) ELSE <<>>
        security_type == StrippedOr(row, 1, <<>>)
        trading_code == StrippedOr(row, 2, <<>>)
        isin == StrippedOr(row, 3, <<>>)
        currency == IF Len(row) > 4 /\ ~isna(row[5])
                    THEN Some(strip(str(row[5]))) ELSE None
        quantity_str == StrippedOr(row, 5, <<"0">>)
        quantity == ParseQuantity(quantity_str)
    IN  IF quantity = None THEN None   \* ValueError of int(), caught
        ELSE IF RequiredFieldsMissing(issuer, isin, quantity[1]) THEN None
        ELSE Some(SecurityPosition(issuer, security_type, trading_code, isin,
                                   NormalizeCurrency(currency), quantity[1]))

\* rows of d, 0-based, in which some cell is a str containing text
RowsWithText(d, text) ==
    {r \in 0..(Len(d) - 1) :
        \E c \in 1..Len(d[r + 1]) :
            isinstance_str(d[r + 1][c]) /\ Contains(text, d[r + 1][c])}

Min(S) == CHOOSE x \in S : \A y \in S : x <= y

find_section_start(d, section_name) ==
    LET S == RowsWithText(d, section_name) IN
    IF S = {} THEN None ELSE Some(Min(S))

find_row_with_text(d, text) ==
    LET S == RowsWithText(d, text) IN
    IF S = {} THEN None ELSE Some(Min(S))

SECTION_TITLE == <<"Svedeniya o cennyh bumagah">>
SECTION_TITLE_CLASSICA == <<"Svedeniya o cennyh bumagah", ", Classica">>
ANCHOR_TEXT == <<"Advanced Micro Devices">>

all_isna(row) == \A c \in 1..Len(row) : isna(row[c])

SectionEndsAt(d, r) ==
    \/ all_isna(iloc(d, r))
    \/ Contains(<<"Itogo">>, str(cell_at(d, r, 0)))
    \/ Contains(SECTION_TITLE, str(cell_at(d, r, 0)))

find_section_end(d, start_row) ==
    LET total_rows == Len(d)
        S == {r \in start_row..(total_rows - 1) : SectionEndsAt(d, r)}
    IN  IF S = {} THEN total_rows ELSE Min(S)

\* one turn of the loop of _extract_bonds: the positions row r adds
BondsOfRow(d, r) ==
    LET row == iloc(d, r) IN
    IF isna(row[1]) \/ Contains(<<"Emitent">>, str(row[1])) THEN <<>>
    ELSE LET security_type == IF Len(row) > 1 THEN str(row[2]) ELSE <<>> IN
         IF ~Contains(<<"obligac">>, lower(security_type)) THEN <<>>
         ELSE create_position_from_row(row)

RECURSIVE BondsLoop(_, _, _)
BondsLoop(d, r, end_row) ==
    IF r >= end_row THEN <<>>
    ELSE BondsOfRow(d, r) \o BondsLoop(d, r + 1, end_row)

extract_bonds(d) ==
    LET start_row == find_section_start(d, SECTION_TITLE) IN
    IF start_row = None THEN <<>>
    ELSE LET end_row == find_section_end(d, start_row[1] + 2) IN
         BondsLoop(d, start_row[1] + 1, end_row)

\* a variant that stops at the first row that gives no position
RECURSIVE StocksLoopStopsAtBadRow(_, _)
StocksLoopStopsAtBadRow(d, r) ==
    IF r >= Len(d) THEN <<>>
    ELSE LET row == iloc(d, r) IN
         IF isna(row[1]) \/ Contains(<<"Emitent">>, str(row[1]))
         THEN StocksLoopStopsAtBadRow(d, r + 1)
         ELSE IF Contains(<<"Itogo">>, str(row[1])) THEN <<>>
         ELSE IF create_position_from_row(row) = None THEN <<>>
         ELSE create_position_from_row(row) \o StocksLoopStopsAtBadRow(d, r + 1)

\* a variant that stops at the first securities row that gives no position
RECURSIVE StocksLoopStopsAtDefect(_, _)
StocksLoopStopsAtDefect(d, r) ==
    IF r >= Len(d) THEN <<>>
    ELSE LET row == iloc(d, r) IN
         IF isna(row[1]) \/ Contains(<<"Emitent">>, str(row[1]))
         THEN StocksLoopStopsAtDefect(d, r + 1)
         ELSE IF Contains(<<"Itogo">>, str(row[1])) THEN <<>>
         ELSE IF notna(row[2]) /\ create_position_from_row(row) = None THEN <<>>
         ELSE create_position_from_row(row) \o StocksLoopStopsAtDefect(d, r + 1)

\* the loop of _extract_stocks_and_etfs from row r on: skip empty and header
\* rows, stop at the first total row
RECURSIVE StocksLoop(_, _)
StocksLoop(d, r) ==
    IF r >= Len(d) THEN <<>>
    ELSE LET row == iloc(d, r) IN
         IF isna(row[1]) \/ Contains(<<"Emitent">>, str(row[1]))
         THEN StocksLoop(d, r + 1)
         ELSE IF Contains(<<"Itogo">>, str(row[1])) THEN <<>>
         ELSE create_position_from_row(row) \o StocksLoop(d, r + 1)

StocksStartRow(d) ==
    LET start_row == find_section_start(d, SECTION_TITLE_CLASSICA) IN
    IF start_row # None THEN start_row
    ELSE LET anchor == find_row_with_text(d, ANCHOR_TEXT) IN
         IF anchor = None THEN None ELSE Some(anchor[1] - 1)

extract_stocks_and_etfs(d) ==
    LET start_row == StocksStartRow(d) IN
    IF start_row = None THEN <<>> ELSE StocksLoop(d, start_row[1] + 1)

extract_positions(d) == extract_bonds(d) \o extract_stocks_and_etfs(d)

UNKNOWN == <<"UNKNOWN">>

\* lexemes made of word characters only (\w)
WordLexemes ==
    DecimalDigits \cup {"40817", "A7", "B9", "nan", "Sber", "Schet"}
IsWord(c) == c \in WordLexemes

\* re.search(literal + r'(\w+)', s): group 1 of the leftmost match, or None
RECURSIVE WordRun(_, _)
WordRun(s, k) ==
    IF k <= Len(s) /\ IsWord(s[k]) THEN <<s[k]>> \o WordRun(s, k + 1) ELSE <<>>

re_search(literal, s) ==
    LET M == {k \in 1..(Len(s) - 1) : s[k] = literal /\ IsWord(s[k + 1])} IN
    IF M = {} THEN None ELSE Some(WordRun(s, Min(M) + 1))

ACCOUNT_ROW == 3

\* a variant that tries the numero sign first
extract_account_number_swapped(d) ==
    IF Len(d) <= ACCOUNT_ROW \/ Len(iloc(d, ACCOUNT_ROW)) = 0
    THEN UNKNOWN
    ELSE LET account_info == str(cell_at(d, ACCOUNT_ROW, 0))
             m1 == re_search("kod scheta: ", account_info)
             m2 == re_search("No", account_info)
         IN  IF m2 # None THEN m2[1]
             ELSE IF m1 # None THEN m1[1]
             ELSE UNKNOWN

extract_account_number(d) ==
    IF Len(d) <= ACCOUNT_ROW \/ Len(iloc(d, ACCOUNT_ROW)) = 0
    THEN UNKNOWN                       \* IndexError, caught
    ELSE LET account_info == str(cell_at(d, ACCOUNT_ROW, 0))
             m1 == re_search("kod scheta: ", account_info)
             m2 == re_search("No", account_info)
         IN  IF m1 # None THEN m1[1]
             ELSE IF m2 # None THEN m2[1]
             ELSE UNKNOWN

BrokerStatement(account_number, positions) ==
    [kind |-> "BrokerStatement", account_number |-> account_number,
     positions |-> positions]

ValueError == [kind |-> "ValueError", account_number |-> <<>>, positions |-> <<>>]
NoOutcome == [kind |-> "none", account_number |-> <<>>, positions |-> <<>>]

\* a byte string pd.read_excel cannot load (no such sheet, not a workbook)
Unreadable == << << <<"<unreadable>">> >> >>

\* a variant that adds the rows read to the sheet already loaded
read_excel_appending(old_df, f) ==
    IF f = Unreadable THEN old_df
    ELSE IF old_df = None THEN Some(f) ELSE Some(old_df[1] \o f)

\* self.df after pd.read_excel: unchanged when read_excel raises
read_excel(old_df, f) == IF f = Unreadable THEN old_df ELSE Some(f)

\* what parse_bytes returns or raises once self.df holds d
parse_result(f, self_df) ==
    IF f = Unreadable THEN ValueError
    ELSE BrokerStatement(extract_account_number(self_df[1]),
                         extract_positions(self_df[1]))

total_positions(st) == Len(st.positions)
CountWhere(P(_), seq) == Cardinality({k \in 1..Len(seq) : P(seq[k])})
bonds_count(st) == CountWhere(is_bond, st.positions)
stocks_count(st) == CountWhere(is_stock, st.positions)
etfs_count(st) == CountWhere(is_etf, st.positions)

-----------------------------------------------------------------------------
(* The sheets given to the parser: a head (nothing, or the rows above the  *)
(* tables, the account line at row 3) followed by up to MaxBody rows.      *)

RowOf(c0, c1, c2, c3, c4, c5) == <<c0, c1, c2, c3, c4, c5>>
TextRow(text) == RowOf(text, NaN, NaN, NaN, NaN, NaN)

BlankRow == TextRow(NaN)
HeaderRow == HEADERS
TotalRow == TextRow(<<"Itogo", " po razdelu">>)
BondsTitleRow == TextRow(SECTION_TITLE)
ClassicaTitleRow == TextRow(SECTION_TITLE_CLASSICA)
FillerRow == TextRow(<<"Otchet brokera">>)

StockType == <<"Obychnaya", " ", "akc", "iya">>
BondType == <<"Gosudarstvennaya", " ", "obligac", "iya">>

StockRow ==
    RowOf(<<"Sber">>, StockType, <<"SBER03">>, <<"RU0009029540">>, NaN,
          <<"1", "0", "0">>)
BondRow ==
    RowOf(<<"Minfin">>, BondType, <<"SU26238">>, <<"RU000A1038V6">>,
          <<"nan">>, <<"1", " ", "2", "3", "4">>)
\* rows with a defect: no ISIN, a quantity that is no whole number, no issuer,
\* and a defective row that holds the anchor text of the stocks pass
NoIsinRow ==
    RowOf(<<"Lukoil">>, StockType, <<"LKOH">>, NaN, NaN, <<"5">>)
BadQuantityRow ==
    RowOf(<<"Gazprom">>, BondType, <<"GAZP">>, <<"RU0007661625">>, NaN,
          <<"1", "2", ",", "5">>)
NoIssuerRow ==
    RowOf(<<" ">>, StockType, <<"YNDX">>, <<"NL0009805522">>, NaN, <<"3">>)
AnchorRow ==
    RowOf(ANCHOR_TEXT, StockType, <<"AMD">>, <<"US0079031078">>,
          <<"USD">>, <<"0">>)

AccountCode == <<"Schet", " ", "kod scheta: ", "40817">>
AccountNumero == <<"Schet", " ", "No", "A7">>
AccountBoth == <<"No", "A7", " ", "kod scheta: ", "40817">>
AccountBroken == <<"kod scheta: ", "-", " ", "No", "B9", "-", "A7">>
AccountNeither == <<"Schet", " ", "40817">>
AccountCells ==
    {AccountCode, AccountNumero, AccountBoth, AccountBroken, AccountNeither, NaN}

RowPool ==
    {HeaderRow, BlankRow, TotalRow, BondsTitleRow, ClassicaTitleRow,
     StockRow, BondRow, NoIsinRow, BadQuantityRow, NoIssuerRow, AnchorRow}

SeqsUpTo(S, n) == UNION {[1..m -> S] : m \in 0..n}

Bodies(n) == SeqsUpTo(RowPool, n)

SheetHead(row0, account) == <<row0, BlankRow, BlankRow, TextRow(account)>>

\* the layout of the sample statement: report title, account line, tables
CanonicalSheets ==
    {SheetHead(FillerRow, AccountCode) \o b : b \in Bodies(MaxBody)}
\* a statement whose stocks title comes first: title, account line, header
StocksSheets ==
    {SheetHead(ClassicaTitleRow, AccountCode) \o <<HeaderRow>> \o b :
        b \in Bodies(MaxBody - 1)}
\* sheets too short to have an account line
ShortSheets == Bodies(MaxBody - 1)
\* every account line, above at most one row
AccountSheets ==
    {SheetHead(FillerRow, a) \o b : a \in AccountCells, b \in Bodies(1)}
\* the account line one row too low, below a row of the stocks table
LateAccountSheets ==
    {<<ClassicaTitleRow, BlankRow, BlankRow, r, TextRow(AccountNumero)>> \o b :
        r \in RowPool, b \in Bodies(1)}

Sheets ==
    {Unreadable} \cup CanonicalSheets \cup StocksSheets \cup ShortSheets
    \cup AccountSheets \cup LateAccountSheets

\* a second statement, parsed between two parses of the sheet under test
OtherSheet == <<ClassicaTitleRow, HeaderRow, StockRow, BondRow>>

-----------------------------------------------------------------------------
(* The parser instance, reused from one parse_bytes call to the next.      *)

\* a row of securities data: not the header, and it names an instrument
IsDataRow(row) ==
    /\ Len(row) > 1
    /\ ~isna(row[2])
    /\ ~Contains(<<"Emitent">>, str(row[1]))

\* the defects of a data row: no issuer, no ISIN, no positive whole quantity
HasDefect(row) ==
    LET q == remove_whitespace(StrippedOr(row, 5, <<"0">>)) IN
    \/ StrippedOr(row, 0, <<>>) = <<>>
    \/ StrippedOr(row, 3, <<>>) = <<>>
    \/ ~(q # <<>> /\ \A k \in 1..Len(q) : q[k] \in DecimalDigits)
    \/ \A k \in 1..Len(q) : q[k] = "0"

RemoveRow(d, r) == SubSeq(d, 1, r) \o SubSeq(d, r + 2, Len(d))

ParserInit ==
    /\ file \in Sheets
    /\ df = None
    /\ input = None
    /\ outcome = NoOutcome
    /\ first = NoOutcome
    /\ reused = FALSE
    /\ base = NoOutcome
    /\ removed = None
    /\ i = 0 /\ sections = <<>> /\ current_section = None /\ current_start = None
    /\ merged = NoOutcome
    /\ pc = "parser"
    /\ row_data = <<>> /\ position = None
    /\ summary = None
    /\ ServiceIdle
    /\ StorageIdle

\* BrokerStatementParser.parse_bytes(f)
parse_bytes(f) ==
    /\ pc = "parser"
    /\ df' = read_excel(df, f)
    /\ input' = Some(f)
    /\ outcome' = parse_result(f, df')
    /\ first' = (IF f = file /\ first = NoOutcome THEN outcome' ELSE first)
    /\ reused' = (reused \/ f # file)
    /\ UNCHANGED <<file, base, removed, i, sections, current_section,
                   current_start, merged, pc, row_data, position>>
    /\ UNCHANGED <<summary, storageVars, serviceVars>>

ParseSheet == parse_bytes(file)
\* another upload between two parses of the sheet under test
ParseOther ==
    input = Some(file) /\ base = NoOutcome /\ parse_bytes(OtherSheet)
ParseUnreadable ==
    input = Some(file) /\ base = NoOutcome /\ parse_bytes(Unreadable)

\* the sheet under test again, without one of its defective data rows
RemoveDefectiveRow ==
    /\ pc = "parser"
    /\ file # Unreadable
    /\ input = Some(file)
    /\ base = NoOutcome
    /\ \E r \in 0..(Len(file) - 1) :
          /\ IsDataRow(iloc(file, r))
          /\ HasDefect(iloc(file, r))
          /\ removed' = Some([row |-> r, sheet |-> file])
          /\ file' = RemoveRow(file, r)
    /\ base' = outcome
    /\ first' = NoOutcome
    /\ reused' = FALSE
    /\ outcome' = NoOutcome
    /\ input' = None
    /\ UNCHANGED <<df, i, sections, current_section, current_start, merged,
                   pc, row_data, position>>
    /\ UNCHANGED <<summary, storageVars, serviceVars>>

ParserNext ==
    \/ ParseSheet
    \/ ParseOther
    \/ ParseUnreadable
    \/ RemoveDefectiveRow

Spec == ParserInit /\ [][ParserNext]_vars

-----------------------------------------------------------------------------
(* utils/merge_csv_tables.py: find_table_sections, one loop turn per       *)
(* action, inside merge_csv_tables.                                        *)

header_pattern == <<"Emitent">>
TOTAL_BY_SECTION == <<"Itogo", " po razdelu">>
TOTAL_BY_ACCOUNT == <<"Itogo", " po schetu">>
QUOTE == <<"\"">>

\* str(d.iloc[r, 0]) if pd.notna(d.iloc[r, 0]) else ""
FirstCellText(d, r) ==
    IF notna(cell_at(d, r, 0)) THEN str(cell_at(d, r, 0)) ELSE <<>>

\* a variant that takes a quote off either end on its own
UnquoteEitherSide(section_name) ==
    LET a == IF startswith(section_name, QUOTE)
             THEN SubSeq(section_name, 2, Len(section_name))
             ELSE section_name
    IN  IF endswith(a, QUOTE) THEN SubSeq(a, 1, Len(a) - 1) ELSE a

\* section_name[1:-1] when the name starts and ends with a double quote
Unquote(section_name) ==
    IF startswith(section_name, QUOTE) /\ endswith(section_name, QUOTE)
    THEN SubSeq(section_name, 2, Len(section_name) - 1)
    ELSE section_name

\* the test of the backward window on the first cell of a row above
WindowCellQualifies(prev_cell) ==
    /\ prev_cell # <<>>
    /\ ~startswith(prev_cell, <<"Emitent">>)
    /\ ~startswith(prev_cell, <<"Itogo">>)
    /\ Len(strip(prev_cell)) > 0
    /\ strip(prev_cell) # <<>>

Max(a, b) == IF a >= b THEN a ELSE b

\* for j in range(max(0, h - 3), h): the first row that qualifies names the
\* section
WindowName(d, h) ==
    LET J == {j \in Max(0, h - 3)..(h - 1) :
                 WindowCellQualifies(FirstCellText(d, j))}
    IN  IF J = {} THEN <<"Unknown">>
        ELSE Unquote(strip(FirstCellText(d, Min(J))))

\* the label of the section opened by the header row h
SectionName(d, h) ==
    IF h > 0
    THEN LET prev_cell == FirstCellText(d, h - 1) IN
         IF prev_cell # <<>> /\ Len(strip(prev_cell)) > 0
         THEN Unquote(strip(prev_cell))
         ELSE WindowName(d, h)
    ELSE <<"Unknown">>

SectionOpen == current_section # None /\ current_start # None

IsTerminator(cell_value) ==
    Contains(TOTAL_BY_SECTION, cell_value) \/ Contains(TOTAL_BY_ACCOUNT, cell_value)

\* the last row of the section still open when the rows run out
LastRowQualifies(row_value) ==
    /\ row_value # <<>>
    /\ ~startswith(row_value, <<"Itogo">>)
    /\ ~startswith(row_value, <<"Data sostavleniya">>)
    /\ Len(strip(row_value)) > 0

LastDataRow(d, start) ==
    LET J == {j \in start..(Len(d) - 1) : LastRowQualifies(FirstCellText(d, j))}
    IN  IF J = {} THEN Len(d) - 1
        ELSE CHOOSE j \in J : \A k \in J : k <= j

Span(label, start_row, end_row) == <<label, start_row, end_row>>

\* pd.read_csv, then the call of find_table_sections
ReadCsv ==
    /\ pc = "read_csv"
    /\ df' = Some(file)
    /\ i' = 0
    /\ sections' = <<>>
    /\ current_section' = None
    /\ current_start' = None
    /\ pc' = "scan"
    /\ UNCHANGED <<file, input, outcome, first, reused, base, removed, merged,
                   row_data, position>>
    /\ UNCHANGED <<summary, storageVars, serviceVars>>

\* a variant that forgets the section still open at a new header row
ScanHeaderDropsOpen ==
    /\ pc = "scan"
    /\ i < Len(df[1])
    /\ FirstCellText(df[1], i) = header_pattern
    /\ sections' = sections
    /\ current_section' = Some(SectionName(df[1], i))
    /\ current_start' = Some(i + 1)
    /\ i' = i + 1
    /\ UNCHANGED <<file, df, input, outcome, first, reused, base, removed, merged, pc,
                   row_data, position>>
    /\ UNCHANGED <<summary, storageVars, serviceVars>>

\* a loop turn at a row whose first cell is the header token
ScanHeader ==
    /\ pc = "scan"
    /\ i < Len(df[1])
    /\ FirstCellText(df[1], i) = header_pattern
    /\ sections' = (IF SectionOpen
                    THEN Append(sections,
                                Span(current_section[1], current_start[1], i - 1))
                    ELSE sections)
    /\ current_section' = Some(SectionName(df[1], i))
    /\ current_start' = Some(i + 1)
    /\ i' = i + 1
    /\ UNCHANGED <<file, df, input, outcome, first, reused, base, removed, merged, pc,
                   row_data, position>>
    /\ UNCHANGED <<summary, storageVars, serviceVars>>

\* a variant that closes the section and leaves it open
ScanTerminatorNoReset ==
    /\ pc = "scan"
    /\ i < Len(df[1])
    /\ FirstCellText(df[1], i) # header_pattern
    /\ IsTerminator(FirstCellText(df[1], i))
    /\ sections' = (IF SectionOpen
                    THEN Append(sections,
                                Span(current_section[1], current_start[1], i - 1))
                    ELSE sections)
    /\ i' = i + 1
    /\ UNCHANGED <<file, df, input, outcome, first, reused, base, removed,
                   current_section, current_start, merged, pc, row_data,
                   position>>
    /\ UNCHANGED <<summary, storageVars, serviceVars>>

\* a loop turn at a "total by section" or "total by account" row
ScanTerminator ==
    /\ pc = "scan"
    /\ i < Len(df[1])
    /\ FirstCellText(df[1], i) # header_pattern
    /\ IsTerminator(FirstCellText(df[1], i))
    /\ IF SectionOpen
       THEN /\ sections' = Append(sections,
                                  Span(current_section[1], current_start[1], i - 1))
            /\ current_section' = None
            /\ current_start' = None
       ELSE UNCHANGED <<sections, current_section, current_start>>
    /\ i' = i + 1
    /\ UNCHANGED <<file, df, input, outcome, first, reused, base, removed, merged, pc,
                   row_data, position>>
    /\ UNCHANGED <<summary, storageVars, serviceVars>>

\* a loop turn at any other row
ScanOther ==
    /\ pc = "scan"
    /\ i < Len(df[1])
    /\ FirstCellText(df[1], i) # header_pattern
    /\ ~IsTerminator(FirstCellText(df[1], i))
    /\ i' = i + 1
    /\ UNCHANGED <<file, df, input, outcome, first, reused, base, removed, sections,
                   current_section, current_start, merged, pc, row_data,
                   position>>
    /\ UNCHANGED <<summary, storageVars, serviceVars>>

\* after the loop: the section still open is closed, the spans are returned
CloseLast ==
    /\ pc = "scan"
    /\ i = Len(df[1])
    /\ sections' = (IF SectionOpen
                    THEN Append(sections,
                                Span(current_section[1], current_start[1],
                                     LastDataRow(df[1], current_start[1])))
                    ELSE sections)
    /\ pc' = "found"
    /\ UNCHANGED <<file, df, input, outcome, first, reused, base, removed, i,
                   current_section, current_start, merged, row_data, position>>
    /\ UNCHANGED <<summary, storageVars, serviceVars>>

\* extract_table_data: the rows of the spans, six columns and the label
RECURSIVE lstrip_quotes(_)
lstrip_quotes(s) ==
    IF s # <<>> /\ Head(s) = "\"" THEN lstrip_quotes(Tail(s)) ELSE s

RECURSIVE rstrip_quotes(_)
rstrip_quotes(s) ==
    IF s # <<>> /\ s[Len(s)] = "\""
    THEN rstrip_quotes(SubSeq(s, 1, Len(s) - 1)) ELSE s

\* str(value).strip().strip('"')
CleanValue(value) == rstrip_quotes(lstrip_quotes(strip(str(value))))

ExportRow(row, section_name) ==
    [j \in 1..7 |->
        IF j = 7 THEN section_name
        ELSE IF j <= Len(row)
             THEN (IF isna(row[j]) THEN <<>> ELSE CleanValue(row[j]))
             ELSE <<>>]

RECURSIVE SectionRows(_, _, _, _)
SectionRows(d, section_name, r, stop) ==
    IF r >= stop THEN <<>>
    ELSE LET row == iloc(d, r) IN
         IF isna(row[1]) \/ strip(str(row[1])) = <<>>
         THEN SectionRows(d, section_name, r + 1, stop)
         ELSE IF Contains(<<"Itogo">>, str(row[1]))
         THEN SectionRows(d, section_name, r + 1, stop)
         ELSE <<ExportRow(row, section_name)>>
              \o SectionRows(d, section_name, r + 1, stop)

MinOf(a, b) == IF a <= b THEN a ELSE b

RECURSIVE extract_table_data(_, _)
extract_table_data(d, spans) ==
    IF spans = <<>> THEN <<>>
    ELSE SectionRows(d, spans[1][1], spans[1][2], MinOf(spans[1][3] + 1, Len(d)))
         \o extract_table_data(d, Tail(spans))

NoSectionsError ==
    [kind |-> "ValueError", account_number |-> <<"no sections">>, positions |-> <<>>]
Saved(rows) ==
    [kind |-> "saved", account_number |-> <<>>, positions |-> rows]

\* a variant that writes an empty table when there is no section
MergeSavesEmpty ==
    /\ pc = "found"
    /\ sections = <<>>
    /\ merged' = Saved(<<>>)
    /\ pc' = "done"
    /\ UNCHANGED <<file, df, input, outcome, first, reused, base, removed, i,
                   sections, current_section, current_start, row_data, position>>
    /\ UNCHANGED <<summary, storageVars, serviceVars>>

\* merge_csv_tables once find_table_sections has returned
MergeRaise ==
    /\ pc = "found"
    /\ sections = <<>>
    /\ merged' = NoSectionsError
    /\ pc' = "done"
    /\ UNCHANGED <<file, df, input, outcome, first, reused, base, removed, i, sections,
                   current_section, current_start, row_data, position>>
    /\ UNCHANGED <<summary, storageVars, serviceVars>>

MergeSave ==
    /\ pc = "found"
    /\ sections # <<>>
    /\ merged' = Saved(extract_table_data(df[1], sections))
    /\ pc' = "done"
    /\ UNCHANGED <<file, df, input, outcome, first, reused, base, removed, i, sections,
                   current_section, current_start, row_data, position>>
    /\ UNCHANGED <<summary, storageVars, serviceVars>>

QuotedLabelRow == TextRow(<<"\"", "Obligacii", "\"">>)
HalfQuotedLabelRow == TextRow(<<"\"", "Akcii">>)
PreparedRow == TextRow(<<"Data sostavleniya", " ", "2", "0", "2", "5">>)
SpaceRow == TextRow(<<" ">>)
AccountTotalRow == TextRow(<<"Itogo", " po schetu">>)

LocatorPool ==
    {HeaderRow, BlankRow, TotalRow, AccountTotalRow, StockRow, NoIsinRow,
     QuotedLabelRow, HalfQuotedLabelRow, PreparedRow, SpaceRow}

LocatorGrids == SeqsUpTo(LocatorPool, MaxLocRows)

MergeInit ==
    /\ file \in LocatorGrids
    /\ df = None
    /\ input = None
    /\ outcome = NoOutcome
    /\ first = NoOutcome
    /\ reused = FALSE
    /\ base = NoOutcome
    /\ removed = None
    /\ i = 0 /\ sections = <<>> /\ current_section = None /\ current_start = None
    /\ merged = NoOutcome
    /\ pc = "read_csv"
    /\ row_data = <<>> /\ position = None
    /\ summary = None
    /\ ServiceIdle
    /\ StorageIdle

MergeNext ==
    \/ ReadCsv
    \/ ScanHeader
    \/ ScanTerminator
    \/ ScanOther
    \/ CloseLast
    \/ MergeRaise
    \/ MergeSave

LocatorSpec == MergeInit /\ [][MergeNext]_vars

-----------------------------------------------------------------------------
(* _create_position_from_row on one row.                                   *)

IssuerCells == {NaN, <<" ">>, <<" ", "Sber", " ">>}
IsinCells == {NaN, <<"RU0009029540">>}
CurrencyCells ==
    {NaN, <<>>, <<"nan">>, <<" ", "nan", " ">>, <<"NaN">>, <<"USD">>}
QuantityChars == {"0", "7", " ", ",", "^2"}
QuantityCells ==
    {NaN, <<"1", " ", "2", "3", "4">>, <<"1", "2", ",", "5">>, <<"-", "5">>,
     <<"+", "5">>, <<" ", "1", "0", "0", " ">>, <<"1", "\t", "0">>}
    \cup SeqsUpTo(QuantityChars, MaxQtyLen)
RowLengths == {0, 5, 6}

Truncate(row, n) == SubSeq(row, 1, n)

RowInputs ==
    {Truncate(RowOf(c0, StockType, <<"SBER03">>, c3, c4, c5), n) :
        c0 \in IssuerCells, c3 \in IsinCells, c4 \in CurrencyCells,
        c5 \in QuantityCells, n \in RowLengths}

RowInit ==
    /\ row_data \in RowInputs
    /\ position = None
    /\ pc = "row"
    /\ file = <<>> /\ df = None /\ input = None
    /\ outcome = NoOutcome /\ first = NoOutcome /\ reused = FALSE
    /\ base = NoOutcome /\ removed = None
    /\ i = 0 /\ sections = <<>> /\ current_section = None /\ current_start = None
    /\ merged = NoOutcome
    /\ summary = None
    /\ ServiceIdle
    /\ StorageIdle

CreatePosition ==
    /\ pc = "row"
    /\ position' = create_position_from_row(row_data)
    /\ pc' = "row_done"
    /\ UNCHANGED <<file, df, input, outcome, first, reused, base, removed, i,
                   sections, current_section, current_start, merged, row_data>>
    /\ UNCHANGED <<summary, storageVars, serviceVars>>

RowNext == CreatePosition

RowSpec == RowInit /\ [][RowNext]_vars

-----------------------------------------------------------------------------
(* Both tools on the same grids: the statement parser and merge_csv_tables. *)

\* rows whose first cell reads as the header token once it is cleaned: the
\* token after a space, the token in double quotes
PaddedHeaderRow == [HEADERS EXCEPT ![1] = <<" ">> \o header_pattern]
QuotedHeaderRow == [HEADERS EXCEPT ![1] = QUOTE \o header_pattern \o QUOTE]

HeaderLikeGrids ==
    SeqsUpTo({HeaderRow, StockRow, PaddedHeaderRow, QuotedHeaderRow}, MaxBody)

IngestInit ==
    /\ file \in Bodies(MaxBody) \cup HeaderLikeGrids
    /\ df = None
    /\ input = None
    /\ outcome = NoOutcome
    /\ first = NoOutcome
    /\ reused = FALSE
    /\ base = NoOutcome
    /\ removed = None
    /\ i = 0 /\ sections = <<>> /\ current_section = None /\ current_start = None
    /\ merged = NoOutcome
    /\ pc \in {"parser", "read_csv"}
    /\ row_data = <<>> /\ position = None
    /\ summary = None
    /\ ServiceIdle
    /\ StorageIdle

IngestNext == ParserNext \/ MergeNext

IngestSpec == IngestInit /\ [][IngestNext]_vars

-----------------------------------------------------------------------------
(* ImportService.validate_statement on the statements of sheets whose rows *)
(* carry every kind of instrument type text.                               *)

\* a variant that counts by the pass that found the row
validate_statement_by_section(statement) ==
    [valid |-> TRUE,
     account_number |-> statement.account_number,
     total_positions |-> total_positions(statement),
     bonds |-> Len(extract_bonds(df[1])),
     stocks |-> Len(extract_stocks_and_etfs(df[1])) - etfs_count(statement),
     etfs |-> etfs_count(statement)]

validate_statement(statement) ==
    [valid |-> TRUE,
     account_number |-> statement.account_number,
     total_positions |-> total_positions(statement),
     bonds |-> bonds_count(statement),
     stocks |-> stocks_count(statement),
     etfs |-> etfs_count(statement)]

FundType == <<"PIF">>
EtfFundType == <<"ETF", " ", "Fund">>
MixedType == <<"Akc", "ii", " ", "i", " ", "obligac", "ii">>
FundOfStocksType == <<"PIF", " ", "akc", "ij">>

TypeCells ==
    {BondType, StockType, FundType, <<"pif">>, <<"Pif">>, <<" ", "PIF", " ">>,
     EtfFundType, <<"OBLIGAC", "II">>, <<"AKC", "II">>, MixedType,
     FundOfStocksType, NaN}

TypedRows ==
    {RowOf(<<"Sber">>, t, <<"SBER03">>, <<"RU0009029540">>, NaN, <<"5">>) :
        t \in TypeCells}
    \cup {RowOf(<<"Minfin">>, t, <<"SU26238">>, <<"RU000A1038V6">>, <<"USD">>,
                <<"1", "0">>) : t \in {BondType, FundType, EtfFundType}}

\* report title, account line, the title of one section, typed rows
TypedSheets ==
    {SheetHead(FillerRow, a) \o <<title>> \o rows :
        a \in {AccountCode}, title \in {BondsTitleRow, ClassicaTitleRow},
        rows \in SeqsUpTo(TypedRows, MaxTyped)}

SummaryInit ==
    /\ file \in TypedSheets
    /\ df = None
    /\ input = None
    /\ outcome = NoOutcome
    /\ first = NoOutcome
    /\ reused = FALSE
    /\ base = NoOutcome
    /\ removed = None
    /\ i = 0 /\ sections = <<>> /\ current_section = None /\ current_start = None
    /\ merged = NoOutcome
    /\ pc = "parser"
    /\ row_data = <<>> /\ position = None
    /\ summary = None
    /\ ServiceIdle
    /\ StorageIdle

\* ImportService.validate_statement(statement) on the statement last parsed
ValidateStatement ==
    /\ pc = "parser"
    /\ outcome.kind = "BrokerStatement"
    /\ summary' = Some(validate_statement(outcome))
    /\ UNCHANGED <<ingestVars, storageVars, serviceVars>>

SummaryNext == ParseSheet \/ ValidateStatement

SummarySpec == SummaryInit /\ [][SummaryNext]_vars

-----------------------------------------------------------------------------
(* app/storage.py: calls on two DataManager instances.                     *)

SecurityPool ==
    {Security("SBER", "Existing Sber", None, None, None, None),
     Security("GAZP", "Gazprom", None, None, None, None)}
QuotePool == {Quote("SBER", 250)}

StorageInit ==
    /\ pc = "storage"
    /\ StorageIdle
    /\ summary = None
    /\ ServiceIdle
    /\ file = <<>> /\ df = None /\ input = None
    /\ outcome = NoOutcome /\ first = NoOutcome /\ reused = FALSE
    /\ base = NoOutcome /\ removed = None
    /\ i = 0 /\ sections = <<>> /\ current_section = None /\ current_start = None
    /\ merged = NoOutcome
    /\ row_data = <<>> /\ position = None

\* a call of a method of instance d: the instance afterwards, what it returned
Call(d, op, after, result) ==
    /\ pc = "storage"
    /\ ops < MaxOps
    /\ managers' = [managers EXCEPT ![d] = after]
    /\ last' = [op |-> op, dm |-> d, result |-> result, before |-> managers[d]]
    /\ ops' = ops + 1
    /\ UNCHANGED <<ingestVars, summary, response, synced, serviceVars>>

GetNextPortfolioId ==
    \E d \in Instances :
        LET r == get_next_portfolio_id(managers[d]) IN
        /\ Call(d, "get_next_portfolio_id", r.self, Some(r.result))
        /\ issued' = [issued EXCEPT ![d].portfolio = @ + 1]

GetNextPositionId ==
    \E d \in Instances :
        LET r == get_next_position_id(managers[d]) IN
        /\ Call(d, "get_next_position_id", r.self, Some(r.result))
        /\ issued' = [issued EXCEPT ![d].position = @ + 1]

GetNextSecurityId ==
    \E d \in Instances :
        LET r == get_next_security_id(managers[d]) IN
        /\ Call(d, "get_next_security_id", r.self, Some(r.result))
        /\ issued' = [issued EXCEPT ![d].security = @ + 1]

GetNextQuoteId ==
    \E d \in Instances :
        LET r == get_next_quote_id(managers[d]) IN
        /\ Call(d, "get_next_quote_id", r.self, Some(r.result))
        /\ issued' = [issued EXCEPT ![d].quote = @ + 1]

AddSecurity ==
    \E d \in Instances, security \in SecurityPool :
        /\ Call(d, "add_security", add_security(managers[d], security), None)
        /\ UNCHANGED issued

AddQuote ==
    \E d \in Instances, quote \in QuotePool :
        /\ Call(d, "add_quote", add_quote(managers[d], quote), None)
        /\ UNCHANGED issued

\* add_portfolio and add_position with the ids the caller chose
AddPortfolio ==
    \E d \in Instances, id \in {1} :
        /\ Call(d, "add_portfolio", add_portfolio(managers[d], Portfolio(id)), None)
        /\ UNCHANGED issued

AddPosition ==
    \E d \in Instances, id \in {1} :
        /\ Call(d, "add_position",
                add_position(managers[d], Position(id, 1)), None)
        /\ UNCHANGED issued

ClearAll ==
    \E d \in Instances :
        /\ Call(d, "clear_all", clear_all(managers[d]), None)
        /\ issued' = [issued EXCEPT ![d] = NoneIssued]

StorageNext ==
    \/ GetNextPortfolioId
    \/ GetNextPositionId
    \/ GetNextSecurityId
    \/ GetNextQuoteId
    \/ AddSecurity
    \/ AddQuote
    \/ AddPortfolio
    \/ AddPosition
    \/ ClearAll

StorageSpec == StorageInit /\ [][StorageNext]_vars

-----------------------------------------------------------------------------
(* app/modules/marketdata/service.py: MarketDataService on one DataManager *)
(* (instance 1).  An entry of the adapter response is a dict or a list; a  *)
(* key of a dict is absent (Missing) or holds a value, which may be None.  *)

Missing == <<>>
PyNone == "<None>"
Truthy(v) == v # "" /\ v # PyNone
IsStr(v) == v # PyNone

DictEntry(secid, shortname, secname) ==
    [kind |-> "dict", items |-> <<>>, secid |-> secid, shortname |-> shortname,
     secname |-> secname, isin |-> Missing, boardid |-> Missing]
ListEntry(items) ==
    [kind |-> "list", items |-> items, secid |-> Missing,
     shortname |-> Missing, secname |-> Missing, isin |-> Missing,
     boardid |-> Missing]

\* sec_data.get(key, default)
get(field, default) == IF field = Missing THEN default ELSE field[1]
\* a or b
Or(a, b) == IF Truthy(a) THEN a ELSE b

\* the loop of sync_securities_from_moex from entry k on: the instance
\* afterwards, the count, and whether Security(...) raised
RECURSIVE SyncLoop(_, _, _, _, _, _)
SyncLoop(self, securities_data, k, count, engine, market) ==
    IF k > Len(securities_data)
    THEN [self |-> self, count |-> count, raised |-> FALSE]
    ELSE LET sec_data == securities_data[k] IN
         IF sec_data.kind = "dict"
         THEN LET secid == get(sec_data.secid, "")
                  name == Or(get(sec_data.shortname, ""),
                             get(sec_data.secname, ""))
                  isin == get(sec_data.isin, PyNone)
                  board == get(sec_data.boardid, PyNone)
              IN  IF Truthy(secid) /\ ~security_exists(self, secid)
                  THEN IF ~IsStr(name)      \* pydantic: name must be a str
                       THEN [self |-> self, count |-> count, raised |-> TRUE]
                       ELSE SyncLoop(add_security(self,
                                        Security(secid, name, isin, engine,
                                                 market, board)),
                                     securities_data, k + 1, count + 1,
                                     engine, market)
                  ELSE SyncLoop(self, securities_data, k + 1, count,
                                engine, market)
         ELSE SyncLoop(self, securities_data, k + 1, count, engine, market)

sync_securities_from_moex(self, securities_data, engine, market) ==
    SyncLoop(self, securities_data, 1, 0, engine, market)

\* create_security: the store afterwards
create_security(self, secid, name) ==
    add_security(self, Security(secid, name, PyNone, PyNone, PyNone, PyNone))

\* entries as MOEXAdapter.get_securities builds them, entries with keys
\* absent or None, and entries as the tests give them
Entries ==
    {DictEntry(Some("SBER"), Some("Sberbank"), Some("Sberbank Rossii")),
     DictEntry(Some("GAZP"), Some(""), Some("Gazprom")),
     DictEntry(Some(""), Some("Lukoil"), Some("Lukoil")),
     DictEntry(Some("SBER"), Some(""), Some("")),
     DictEntry(Missing, Missing, Missing),
     DictEntry(Some("LKOH"), Some(PyNone), Some(PyNone)),
     ListEntry(<<"SBER", "Sberbank">>),
     ListEntry(<<"GAZP", "Gazprom">>),
     ListEntry(<<"SBER">>),
     ListEntry(<<>>)}

SyncInit ==
    /\ pc = "sync"
    /\ managers = [d \in Instances |-> DataManager]
    /\ issued = [d \in Instances |-> NoneIssued]
    /\ last = NoCall
    /\ ops = 0
    /\ response \in SeqsUpTo(Entries, MaxEntries)
    /\ synced = None
    /\ summary = None
    /\ ServiceIdle
    /\ file = <<>> /\ df = None /\ input = None
    /\ outcome = NoOutcome /\ first = NoOutcome /\ reused = FALSE
    /\ base = NoOutcome /\ removed = None
    /\ i = 0 /\ sections = <<>> /\ current_section = None /\ current_start = None
    /\ merged = NoOutcome
    /\ row_data = <<>> /\ position = None

\* MarketDataService.create_security before the first sync
CreateSecurity ==
    /\ pc = "sync"
    /\ synced = None
    /\ managers[1] = DataManager
    /\ managers' = [managers EXCEPT
                       ![1] = create_security(@, "SBER", "Existing Sber")]
    /\ last' = [op |-> "create_security", dm |-> 1, result |-> None,
                before |-> managers[1]]
    /\ UNCHANGED <<ingestVars, summary, issued, ops, response, synced, serviceVars>>

\* MarketDataService.sync_securities_from_moex() with the adapter returning
\* the response; the loop has no await, so it runs in one step
SyncSecurities ==
    /\ pc = "sync"
    /\ ops < 2
    /\ LET r == sync_securities_from_moex(managers[1], response,
                                          "stock", "shares")
       IN  /\ managers' = [managers EXCEPT ![1] = r.self]
           /\ synced' = Some([raised |-> r.raised,
                              count |-> IF r.raised THEN 0 ELSE r.count])
    /\ last' = [op |-> "sync_securities_from_moex", dm |-> 1,
                result |-> None, before |-> managers[1]]
    /\ ops' = ops + 1
    /\ UNCHANGED <<ingestVars, summary, issued, response, serviceVars>>

SyncNext == CreateSecurity \/ SyncSecurities

SyncSpec == SyncInit /\ [][SyncNext]_vars

-----------------------------------------------------------------------------
(* app/modules/marketdata: the endpoint GET /securities/{secid}/info.      *)
(* Every request gets a service and an adapter of its own (Depends).       *)

\* what aiomoex.get_security_info does: it raises, or returns None or a dict
MoexRaises == [kind |-> "raises", items |-> <<>>]
MoexNone == [kind |-> "none", items |-> <<>>]
MoexDict(items) == [kind |-> "dict", items |-> items]

\* MOEXAdapter._get_session: a new session unless one is open
get_session(self_session) ==
    IF self_session = None \/ self_session = Some("closed")
    THEN Some("open") ELSE self_session

\* MOEXAdapter.close: an open session is closed
close(self_session) ==
    IF self_session # None /\ self_session # Some("closed")
    THEN Some("closed") ELSE self_session

\* the dict MOEXAdapter.get_security_info builds from a non-empty answer
SecurityInfo(items) ==
    [secid |-> dict_get(items, "SECID", ""),
     name |-> dict_get(items, "NAME", ""),
     shortname |-> dict_get(items, "SHORTNAME", ""),
     isin |-> dict_get(items, "ISIN", ""),
     regnumber |-> dict_get(items, "REGNUMBER", ""),
     issuesize |-> dict_get(items, "ISSUESIZE", 0),
     facevalue |-> dict_get(items, "FACEVALUE", 0),
     faceunit |-> dict_get(items, "FACEUNIT", ""),
     issuedate |-> dict_get(items, "ISSUEDATE", ""),
     matdate |-> dict_get(items, "MATDATE", ""),
     typename |-> dict_get(items, "TYPENAME", ""),
     group |-> dict_get(items, "GROUP", ""),
     type |-> dict_get(items, "TYPE", ""),
     groupname |-> dict_get(items, "GROUPNAME", ""),
     emitter_id |-> dict_get(items, "EMITTER_ID", "")]

\* MOEXAdapter.get_security_info: None when the lookup raises or answers
\* nothing, the dict of the fields otherwise
MOEXAdapter_get_security_info(answer) ==
    IF answer.kind = "raises" THEN None
    ELSE IF answer.kind = "dict" /\ answer.items # <<>>
         THEN Some(SecurityInfo(answer.items))
         ELSE None

\* MarketDataService.get_security_info hands the adapter's result on
MarketDataService_get_security_info(answer) ==
    MOEXAdapter_get_security_info(answer)

HTTPException(status_code, detail) ==
    [status_code |-> status_code, detail |-> detail]

\* str(e) of an HTTPException
str_exception(e) ==
    IF e.status_code = 404 THEN "404: " \o e.detail ELSE "500: " \o e.detail

Answer(status_code, detail, body) ==
    [status_code |-> status_code, detail |-> detail, body |-> body]

\* the try block of the endpoint: the HTTPException raised for no info is
\* an Exception, the except clause catches it and raises the 500
endpoint_answer(service_info) ==
    IF service_info = None
    THEN LET e == HTTPException(404, "Security not found") IN
         Answer(500, Some(str_exception(e)), None)
    ELSE Answer(200, None, service_info)

Secids == {"SBER", "GAZP", "XXXX"}

MoexAnswers ==
    {MoexRaises, MoexNone, MoexDict(<<>>),
     MoexDict(<< <<"SECID", "SBER">>, <<"NAME", "Sberbank">>,
                 <<"ISIN", "RU0009029540">> >>),
     MoexDict(<< <<"SECID", "GAZP">>, <<"ISSUESIZE", 1000>> >>),
     MoexDict(<< <<"NAME", "">> >>),
     MoexDict(<< <<"FACEVALUE", 3>> >>)}

ApiInit ==
    /\ pc = "api"
    /\ StorageIdle
    /\ summary = None
    /\ ServiceIdle
    /\ file = <<>> /\ df = None /\ input = None
    /\ outcome = NoOutcome /\ first = NoOutcome /\ reused = FALSE
    /\ base = NoOutcome /\ removed = None
    /\ i = 0 /\ sections = <<>> /\ current_section = None /\ current_start = None
    /\ merged = NoOutcome
    /\ row_data = <<>> /\ position = None

\* a request arrives; `await service.get_security_info(secid)`
GetSecurityInfoLookup ==
    /\ pc = "api"
    /\ served < MaxRequests
    /\ \E secid \in Secids, answer \in MoexAnswers :
          /\ request' = Some([secid |-> secid, answer |-> answer])
          /\ session' = get_session(None)
          /\ info' = MarketDataService_get_security_info(answer)
    /\ reply' = None
    /\ pc' = "api_try"
    /\ UNCHANGED <<file, df, input, outcome, first, reused, base, removed, i,
                   sections, current_section, current_start, merged,
                   row_data, position, summary, storageVars, served, created>>

\* the rest of the try block and the except clause
GetSecurityInfoAnswer ==
    /\ pc = "api_try"
    /\ reply' = Some(endpoint_answer(info))
    /\ pc' = "api_finally"
    /\ UNCHANGED <<file, df, input, outcome, first, reused, base, removed, i,
                   sections, current_section, current_start, merged,
                   row_data, position, summary, storageVars,
                   request, session, info, served, created>>

\* finally: `await service.close()`, then the answer goes out
GetSecurityInfoClose ==
    /\ pc = "api_finally"
    /\ session' = close(session)
    /\ served' = served + 1
    /\ pc' = "api"
    /\ UNCHANGED <<file, df, input, outcome, first, reused, base, removed, i,
                   sections, current_section, current_start, merged,
                   row_data, position, summary, storageVars,
                   request, info, reply, created>>

ApiNext ==
    \/ GetSecurityInfoLookup
    \/ GetSecurityInfoAnswer
    \/ GetSecurityInfoClose

ApiSpec == ApiInit /\ [][ApiNext]_vars

-----------------------------------------------------------------------------
(* app/modules/portfolio/service.py: PortfolioService on one DataManager.  *)

\* PortfolioService.create_portfolio: the portfolio returned and the
\* DataManager afterwards
create_portfolio(data_manager) ==
    LET r == get_next_portfolio_id(data_manager)
        portfolio == Portfolio(r.result)
    IN  [result |-> portfolio, self |-> add_portfolio(r.self, portfolio)]

\* PortfolioService.create_position for position_data.portfolio_id
create_position(data_manager, portfolio_id) ==
    LET r == get_next_position_id(data_manager)
        pos == Position(r.result, portfolio_id)
    IN  [result |-> pos, self |-> add_position(r.self, pos)]

PortfolioSummary(portfolio, positions, total_unrealized_pnl, positions_count) ==
    [portfolio |-> portfolio, positions |-> positions,
     total_unrealized_pnl |-> total_unrealized_pnl,
     positions_count |-> positions_count]

\* PortfolioService.get_portfolio_summary; no position created here has an
\* unrealized_pnl, so the total stays 0
get_portfolio_summary(data_manager, portfolio_id) ==
    IF ~dict_has(data_manager.portfolios_store, portfolio_id) THEN None
    ELSE LET portfolio == get_portfolio(data_manager, portfolio_id)
             positions == get_positions_for_portfolio(data_manager,
                                                      portfolio_id)
         IN  Some(PortfolioSummary(portfolio, positions, 0, Len(positions)))

\* the portfolio ids a caller asks for
PortfolioIds == 1..3

PortfolioInit ==
    /\ pc = "portfolio"
    /\ StorageIdle
    /\ summary = None
    /\ ServiceIdle
    /\ file = <<>> /\ df = None /\ input = None
    /\ outcome = NoOutcome /\ first = NoOutcome /\ reused = FALSE
    /\ base = NoOutcome /\ removed = None
    /\ i = 0 /\ sections = <<>> /\ current_section = None /\ current_start = None
    /\ merged = NoOutcome
    /\ row_data = <<>> /\ position = None

\* a call of a method of the service on instance 1
ServiceCall(op, arg, after, result) ==
    /\ pc = "portfolio"
    /\ ops < MaxOps
    /\ managers' = [managers EXCEPT ![1] = after]
    /\ last' = [op |-> op, dm |-> 1, arg |-> arg, result |-> result,
                before |-> managers[1]]
    /\ ops' = ops + 1
    /\ UNCHANGED <<ingestVars, summary, issued, response, synced,
                   request, session, info, reply, served>>

CreatePortfolio ==
    LET r == create_portfolio(managers[1]) IN
    /\ ServiceCall("create_portfolio", 0, r.self, Some(r.result))
    /\ UNCHANGED created

CreatePortfolioPosition ==
    \E portfolio_id \in PortfolioIds :
        LET r == create_position(managers[1], portfolio_id) IN
        /\ ServiceCall("create_position", portfolio_id, r.self, Some(r.result))
        /\ created' = Append(created, portfolio_id)

GetPortfolioSummary ==
    \E portfolio_id \in PortfolioIds :
        /\ ServiceCall("get_portfolio_summary", portfolio_id, managers[1],
                       get_portfolio_summary(managers[1], portfolio_id))
        /\ UNCHANGED created

PortfolioNext == CreatePortfolio \/ CreatePortfolioPosition \/ GetPortfolioSummary

PortfolioSpec == PortfolioInit /\ [][PortfolioNext]_vars

-----------------------------------------------------------------------------
(* Properties.                                                             *)

SpanStart(span) == span[2]
SpanEnd(span) == span[3]

\* C1: every span the section locator produces has start_row <= end_row,
\* also when a header row is directly followed by a terminator row or by
\* another header row, or is the last row of the grid.
C1_StartNotAfterEnd ==
    \A k \in 1..Len(sections) : SpanStart(sections[k]) <= SpanEnd(sections[k])

\* C2: the spans of one run of find_table_sections are in strictly
\* increasing start_row order and no row index lies in two of them: an
\* earlier span ends before a later one starts.
C2_SpansOrderedDisjoint ==
    \A k \in 1..Len(sections) : \A l \in 1..Len(sections) :
        k < l => /\ SpanStart(sections[k]) < SpanStart(sections[l])
                 /\ SpanEnd(sections[k]) < SpanStart(sections[l])
                 /\ ~\E r \in 0..(Len(file) - 1) :
                        /\ SpanStart(sections[k]) <= r /\ r <= SpanEnd(sections[k])
                        /\ SpanStart(sections[l]) <= r /\ r <= SpanEnd(sections[l])

C2_Witness ==
    /\ pc = "done"
    /\ Len(sections) >= 2
    /\ \E k \in 1..Len(sections) : SpanStart(sections[k]) <= SpanEnd(sections[k])

Parsed == pc = "parser" /\ input = Some(file) /\ file # Unreadable

\* C3: every position of a statement the parser returns has a non-empty
\* issuer, a non-empty ISIN and a quantity above zero.
C3_PositionsValid ==
    outcome.kind = "BrokerStatement" =>
        \A k \in 1..Len(outcome.positions) :
            /\ outcome.positions[k].issuer # <<>>
            /\ outcome.positions[k].isin # <<>>
            /\ outcome.positions[k].quantity > 0

DefectiveRowsOf(d) ==
    {r \in 0..(Len(d) - 1) : IsDataRow(iloc(d, r)) /\ HasDefect(iloc(d, r))}

C3_Witness ==
    /\ Parsed
    /\ Len(outcome.positions) >= 1
    /\ \E r \in DefectiveRowsOf(file) : iloc(file, r) = AnchorRow

NoHeaderMarker(d) ==
    \A r \in 0..(Len(d) - 1) : FirstCellText(d, r) # header_pattern

NoSectionText(d) ==
    RowsWithText(d, SECTION_TITLE) = {} /\ RowsWithText(d, ANCHOR_TEXT) = {}

IsValidStockRow(row) ==
    /\ IsDataRow(row)
    /\ ~HasDefect(row)
    /\ Contains(<<"akc">>, lower(str(row[2])))

\* the grid of the end to end scenario: account line at row 3, then the
\* header row, one valid stock row and a blank row
Scenario(d) ==
    /\ Len(d) = 7
    /\ cell_at(d, ACCOUNT_ROW, 0) = AccountCode
    /\ FirstCellText(d, 4) = header_pattern
    /\ IsValidStockRow(iloc(d, 5))
    /\ all_isna(iloc(d, 6))
    /\ \A r \in 0..2 : ~IsDataRow(iloc(d, r))

OnePositionStatement(st) ==
    /\ st.kind = "BrokerStatement"
    /\ st.account_number = <<"40817">>
    /\ total_positions(st) = 1
    /\ stocks_count(st) = 1
    /\ bonds_count(st) = 0
    /\ etfs_count(st) = 0

TitledScenario(d) ==
    /\ Scenario(d)
    /\ Contains(SECTION_TITLE_CLASSICA, FirstCellText(d, 0))
    /\ all_isna(iloc(d, 1))
    /\ all_isna(iloc(d, 2))

C6_Idempotent ==
    (pc = "parser" /\ input = Some(file) /\ first # NoOutcome) => outcome = first

C6_Witness ==
    /\ Parsed
    /\ reused
    /\ first # NoOutcome
    /\ Len(outcome.positions) >= 1
    /\ outcome # parse_result(OtherSheet, Some(OtherSheet))

PositionalRow(d, r) ==
    \/ r <= ACCOUNT_ROW
    \/ Some(r - 1) = find_section_start(d, SECTION_TITLE)
    \/ r \in RowsWithText(d, SECTION_TITLE)
    \/ r \in RowsWithText(d, ANCHOR_TEXT)

NonSpace(text) == SelectSeq(text, LAMBDA c : c \notin {" ", "\t"})

Pow10(n) == IF n = 0 THEN 1 ELSE IF n = 1 THEN 10 ELSE IF n = 2 THEN 100
            ELSE IF n = 3 THEN 1000 ELSE IF n = 4 THEN 10000 ELSE 100000

RECURSIVE SumTo(_, _)
SumTo(q, k) ==
    IF k = 0 THEN 0
    ELSE SumTo(q, k - 1) + DigitValue(q[k]) * Pow10(Len(q) - k)

\* the decimal value of a text of decimal digits
DecimalValue(q) == SumTo(q, Len(q))

AllDecimal(q) == q # <<>> /\ \A k \in 1..Len(q) : q[k] \in DecimalDigits

FullRow == Len(row_data) = 6 /\ row_data[1] # NaN /\ strip(row_data[1]) # <<>>
             /\ row_data[4] # NaN

\* C8: the quantity is the decimal value of the quantity cell without its
\* whitespace when that consists of decimal digits only ("1 234" gives
\* 1234) and 0 otherwise ("12,5", empty, a sign); a row whose quantity is
\* 0 is dropped.
C8_QuantityParsing ==
    (pc = "row_done" /\ FullRow) =>
        LET q == IF row_data[6] = NaN THEN <<"0">> ELSE NonSpace(row_data[6]) IN
        /\ (AllDecimal(q) /\ DecimalValue(q) > 0) =>
              position # None /\ position[1].quantity = DecimalValue(q)
        /\ (~AllDecimal(q) \/ DecimalValue(q) = 0) => position = None
        /\ row_data[6] = <<"1", " ", "2", "3", "4">> =>
              position # None /\ position[1].quantity = 1234
        /\ row_data[6] = <<"1", "2", ",", "5">> => position = None

C8_Witness ==
    /\ pc = "row_done"
    /\ FullRow
    /\ row_data[6] = <<"1", " ", "2", "3", "4">>
    /\ position # None

\* C9: an accepted position never has the currency "nan" or the empty
\* text: a currency cell that is empty or holds "nan" is stored as None.
C9_CurrencyNormalized ==
    (pc = "row_done" /\ position # None) =>
        /\ position[1].currency # Some(<<"nan">>)
        /\ position[1].currency # Some(<<>>)
        /\ (row_data[5] = NaN \/ strip(row_data[5]) \in {<<>>, <<"nan">>}) =>
              position[1].currency = None
        /\ row_data[5] = <<"USD">> => position[1].currency = Some(<<"USD">>)

C9_Witness ==
    /\ pc = "row_done"
    /\ position # None
    /\ row_data[5] = <<"nan">>
    /\ position[1].currency = None

\* the account number the account line must give
ExpectedAccount(cell) ==
    CASE cell = AccountCode -> <<"40817">>
      [] cell = AccountNumero -> <<"A7">>
      [] cell = AccountBoth -> <<"40817">>
      [] cell = AccountBroken -> <<"B9">>
      [] OTHER -> UNKNOWN

\* C10: the account number is read from row 3, column 0: the token after
\* "kod scheta: " when there is one, else the token after the numero
\* sign, else UNKNOWN; it is UNKNOWN when the grid has no row 3 or the cell
\* is empty, and the parse succeeds in every case.
C10_AccountNumber ==
    Parsed =>
        /\ outcome.kind = "BrokerStatement"
        /\ outcome.account_number =
              (IF Len(file) <= 3 THEN UNKNOWN
               ELSE ExpectedAccount(cell_at(file, 3, 0)))

C10_Witness ==
    /\ Parsed
    /\ Len(file) > 3
    /\ cell_at(file, 3, 0) = AccountBoth
    /\ outcome.account_number = <<"40817">>

\* what the claim expects of a type text, read off its lexemes
BondMarkers == {"obligac", "Obligac", "OBLIGAC"}
StockMarkers == {"akc", "Akc", "AKC"}
FundNames == {"pif", "Pif", "PIF"}
ExpectedBond(t) == \E k \in 1..Len(t) : t[k] \in BondMarkers
ExpectedStock(t) == \E k \in 1..Len(t) : t[k] \in StockMarkers
ExpectedEtf(t) == Len(t) = 1 /\ t[1] \in FundNames

\* C11: for every position of a statement, whichever pass found its row and
\* whatever its other fields, is_bond holds iff the type text in lower case
\* contains the bond marker, is_stock iff it contains the stock marker,
\* is_etf iff it equals the fund name; 'ETF Fund' has all three false.
C11_Classification ==
    outcome.kind = "BrokerStatement" =>
        \A k \in 1..Len(outcome.positions) :
            LET p == outcome.positions[k]
                t == p.security_type
            IN  /\ is_bond(p) = ExpectedBond(t)
                /\ is_stock(p) = ExpectedStock(t)
                /\ is_etf(p) = ExpectedEtf(t)
                /\ t = EtfFundType => ~is_bond(p) /\ ~is_stock(p) /\ ~is_etf(p)
                /\ \A l \in 1..Len(outcome.positions) :
                       outcome.positions[l].security_type = t =>
                          /\ is_bond(outcome.positions[l]) = is_bond(p)
                          /\ is_stock(outcome.positions[l]) = is_stock(p)
                          /\ is_etf(outcome.positions[l]) = is_etf(p)

C11_Witness ==
    /\ outcome.kind = "BrokerStatement"
    /\ Len(outcome.positions) >= 2
    /\ \E k \in 1..Len(outcome.positions) :
          /\ outcome.positions[k].security_type = FundOfStocksType
          /\ is_stock(outcome.positions[k])
    /\ \E k \in 1..Len(outcome.positions) :
          /\ outcome.positions[k].issuer = <<"Minfin">>
          /\ is_etf(outcome.positions[k])

\* C12: validate_statement leaves the statement as the parser returned it
\* and reports its account number, the number of its positions, and the
\* numbers of positions whose type text makes them a bond, a stock, a fund.
C12_ValidateSummary ==
    summary # None =>
        LET s == summary[1]
            P == 1..Len(outcome.positions)
        IN  /\ outcome = first
            /\ s.valid
            /\ s.account_number = outcome.account_number
            /\ s.total_positions = Len(outcome.positions)
            /\ s.bonds = Cardinality({k \in P :
                              ExpectedBond(outcome.positions[k].security_type)})
            /\ s.stocks = Cardinality({k \in P :
                              ExpectedStock(outcome.positions[k].security_type)})
            /\ s.etfs = Cardinality({k \in P :
                              ExpectedEtf(outcome.positions[k].security_type)})

C12_Witness ==
    /\ summary # None
    /\ summary[1].account_number = <<"40817">>
    /\ summary[1].total_positions >= 2
    /\ summary[1].bonds > Len(extract_bonds(file))
    /\ summary[1].bonds + summary[1].stocks + summary[1].etfs
          < summary[1].total_positions

\* the rows of a grid that lie in a span, span by span
InSpan(span, r) == SpanStart(span) <= r /\ r <= SpanEnd(span)

\* column j of a row as the export is to show it
ExportedText(row, j) ==
    IF j > Len(row) \/ isna(row[j]) THEN <<>> ELSE strip(str(row[j]))

RECURSIVE AcceptedRows(_, _, _)
AcceptedRows(d, span, r) ==
    IF r >= Len(d) \/ r > SpanEnd(span) THEN <<>>
    ELSE IF ~HasDefect(iloc(d, r))
         THEN << <<ExportedText(iloc(d, r), 1), ExportedText(iloc(d, r), 2),
                   ExportedText(iloc(d, r), 3), ExportedText(iloc(d, r), 4),
                   ExportedText(iloc(d, r), 5), ExportedText(iloc(d, r), 6),
                   span[1]>> >> \o AcceptedRows(d, span, r + 1)
         ELSE AcceptedRows(d, span, r + 1)

RECURSIVE AcceptedExport(_, _)
AcceptedExport(d, spans) ==
    IF spans = <<>> THEN <<>>
    ELSE AcceptedRows(d, spans[1], SpanStart(spans[1]))
         \o AcceptedExport(d, Tail(spans))

\* C13: the table merge_csv_tables writes has one row for every row of a
\* span with an issuer, an ISIN and a quantity above zero, and no other
\* row; each has the six columns in order, then the label of its span.
C13_ExportAcceptedOnly ==
    (pc = "done" /\ merged.kind = "saved") =>
        merged.positions = AcceptedExport(file, sections)

\* the counter an instance keeps for a kind of id
CounterOf(self, kind) ==
    CASE kind = "portfolio" -> self.next_portfolio_id
      [] kind = "position" -> self.next_position_id
      [] kind = "security" -> self.next_security_id
      [] kind = "quote" -> self.next_quote_id
Kinds == {"portfolio", "position", "security", "quote"}
KindOf(op) ==
    CASE op = "get_next_portfolio_id" -> "portfolio"
      [] op = "get_next_position_id" -> "position"
      [] op = "get_next_security_id" -> "security"
      [] op = "get_next_quote_id" -> "quote"
      [] OTHER -> "none"

\* C14: for each instance and kind, the k-th get_next_<kind>_id call since
\* the construction or the last clear_all returns k, and the next one will
\* return one more than the calls made for that instance and kind: calls
\* for another kind or on another instance do not move the counter.
C14_IdCounters ==
    /\ KindOf(last.op) \in Kinds =>
          last.result = Some(issued[last.dm][KindOf(last.op)])
    /\ \A d \in Instances : \A kind \in Kinds :
          CounterOf(managers[d], kind) = issued[d][kind] + 1

C14_Witness ==
    /\ last.op = "get_next_quote_id"
    /\ last.result = Some(2)
    /\ \E d \in Instances : d # last.dm /\ issued[d].quote = 1
    /\ issued[last.dm].security = 1

\* C15: right after clear_all an instance is as a new one: the four stores
\* are empty, get_quotes of every secid is empty, and each get_next_*_id
\* returns 1.
C15_ClearAllFresh ==
    last.op = "clear_all" =>
        LET self == managers[last.dm] IN
        /\ self = DataManager
        /\ get_all_securities(self) = <<>>
        /\ get_all_portfolios(self) = <<>>
        /\ get_all_positions(self) = <<>>
        /\ \A secid \in {"SBER", "GAZP", "LKOH"} :
              /\ get_quotes(self, secid) = <<>>
              /\ get_security(self, secid) = None
        /\ get_next_portfolio_id(self).result = 1
        /\ get_next_position_id(self).result = 1
        /\ get_next_security_id(self).result = 1
        /\ get_next_quote_id(self).result = 1

C15_Witness ==
    /\ last.op = "clear_all"
    /\ last.before.quotes_store # <<>>
    /\ last.before.next_quote_id > 1
    /\ last.before.next_portfolio_id > 1

\* the secid and the name an entry of the response carries, if any
EntrySecid(e) ==
    IF e.kind = "dict" THEN (IF e.secid = Missing THEN "" ELSE e.secid[1])
    ELSE IF Len(e.items) >= 1 THEN e.items[1] ELSE ""
EntryName(e) ==
    IF e.kind = "dict"
    THEN (IF e.shortname # Missing /\ e.shortname[1] \notin {"", PyNone}
          THEN e.shortname[1]
          ELSE IF e.secname = Missing THEN "" ELSE e.secname[1])
    ELSE IF Len(e.items) >= 2 THEN e.items[2] ELSE ""
WellFormed(e) ==
    EntrySecid(e) \notin {"", PyNone} /\ EntryName(e) \notin {"", PyNone}
WellFormedSecids ==
    {EntrySecid(response[k]) :
        k \in {l \in 1..Len(response) : WellFormed(response[l])}}

\* C16: sync_securities_from_moex adds every entry of the response that
\* carries a secid and a name and whose secid is not stored yet, returns
\* the number it added, leaves the securities stored before as they were,
\* and the store grows by the number returned.
C16_SyncAddsNew ==
    (synced # None /\ last.op = "sync_securities_from_moex") =>
        LET before == last.before.securities_store
            after == managers[1].securities_store
            New == WellFormedSecids \ dict_keys(before)
        IN  /\ ~synced[1].raised
            /\ synced[1].count = Cardinality(New)
            /\ dict_keys(after) = dict_keys(before) \cup New
            /\ \A key \in dict_keys(before) :
                  dict_get(after, key, None) = dict_get(before, key, None)
            /\ Len(after) = Len(before) + synced[1].count

\* C17: an entry without a secid or without a name, or an empty entry, is
\* neither stored nor counted and does not make the call fail; the
\* well-formed entries of the same response are stored and counted.
C17_MalformedSkipped ==
    (synced # None /\ last.op = "sync_securities_from_moex") =>
        LET before == dict_keys(last.before.securities_store)
            after == dict_keys(managers[1].securities_store)
        IN  /\ ~synced[1].raised
            /\ \A k \in 1..Len(response) :
                  IF WellFormed(response[k])
                  THEN EntrySecid(response[k]) \in after
                  ELSE EntrySecid(response[k]) \in after =>
                          EntrySecid(response[k]) \in before \cup WellFormedSecids
            /\ synced[1].count = Cardinality(after \ before)
            /\ after \ before \subseteq WellFormedSecids

\* the rows of the grid as the claims on the locator describe them
GridRows == 0..(Len(file) - 1)
IsHeaderRow(r) == file[r + 1][1] = <<"Emitent">>
HasTotalPhrase(r) ==
    LET c == file[r + 1][1] IN
    /\ c # NaN
    /\ \E k \in 1..(Len(c) - 1) :
          c[k] = "Itogo" /\ c[k + 1] \in {" po razdelu", " po schetu"}
IsBlankRow(r) == \A c \in 1..Len(file[r + 1]) : file[r + 1][c] = NaN
HeadersBefore(r) == {h \in GridRows : h < r /\ IsHeaderRow(h)}
LastHeaderBefore(r) ==
    CHOOSE h \in HeadersBefore(r) : \A g \in HeadersBefore(r) : g <= h
\* the first header row after row r, or the number of rows
NextHeaderAfter(r) ==
    LET H == {h \in GridRows : h > r /\ IsHeaderRow(h)} IN
    IF H = {} THEN Len(file) ELSE CHOOSE h \in H : \A g \in H : h <= g
\* a section is open when the loop comes to row r: a header row above,
\* and no total row since
OpenAt(r) ==
    /\ HeadersBefore(r) # {}
    /\ \A m \in (LastHeaderBefore(r) + 1)..(r - 1) : ~HasTotalPhrase(m)
Located == pc \in {"found", "done"}

\* C18: a total-by-section or total-by-account row t met while a section
\* is open closes it with end_row = t - 1 and resets the locator: the rows
\* from t up to the next header row are in no span.
C18_TerminatorCloses ==
    \A t \in GridRows :
        (HasTotalPhrase(t) /\ OpenAt(t)) =>
            /\ (pc = "scan" /\ i > t) \/ Located =>
                  \E k \in 1..Len(sections) :
                      /\ SpanStart(sections[k]) = LastHeaderBefore(t) + 1
                      /\ SpanEnd(sections[k]) = t - 1
            /\ (pc = "scan" /\ i > t /\ i <= NextHeaderAfter(t)) =>
                  current_section = None /\ current_start = None
            /\ Located =>
                  \A r \in t..(NextHeaderAfter(t) - 1) :
                      \A k \in 1..Len(sections) : ~InSpan(sections[k], r)

C18_Witness ==
    /\ pc = "done"
    /\ \E t \in GridRows :
          /\ HasTotalPhrase(t) /\ OpenAt(t)
          /\ t + 1 < NextHeaderAfter(t)
          /\ ~HasDefect(iloc(file, t + 1))
          /\ \E k \in 1..Len(sections) :
                SpanEnd(sections[k]) = t - 1
                /\ SpanStart(sections[k]) <= SpanEnd(sections[k])

\* C19: a fully blank row b met while a section is open, before any total
\* row, closes the section: its span ends before b, and the rows from b up
\* to the next header row are not in the span.
C19_BlankRowCloses ==
    Located =>
        \A b \in GridRows :
            (IsBlankRow(b) /\ OpenAt(b)
               /\ \A m \in (LastHeaderBefore(b) + 1)..(b - 1) : ~IsBlankRow(m)) =>
                /\ \E k \in 1..Len(sections) :
                      /\ SpanStart(sections[k]) = LastHeaderBefore(b) + 1
                      /\ SpanEnd(sections[k]) < b
                /\ \A k \in 1..Len(sections) :
                      \A r \in b..(NextHeaderAfter(b) - 1) : ~InSpan(sections[k], r)

\* C20: of two header rows h1 < h2 with no total row and no header row
\* between them, the first one's span is closed at h2 - 1 and holds every
\* row between the two, a new span starts at h2 + 1, and nothing is raised.
C20_HeaderAfterHeader ==
    \A h2 \in GridRows :
        (IsHeaderRow(h2) /\ OpenAt(h2)) =>
            LET h1 == LastHeaderBefore(h2) IN
            /\ (pc = "scan" /\ i > h2) \/ Located =>
                  \E k \in 1..Len(sections) :
                      /\ SpanStart(sections[k]) = h1 + 1
                      /\ SpanEnd(sections[k]) = h2 - 1
                      /\ \A r \in (h1 + 1)..(h2 - 1) : InSpan(sections[k], r)
            /\ Located =>
                  \E k \in 1..Len(sections) : SpanStart(sections[k]) = h2 + 1
            /\ merged # NoSectionsError

C20_Witness ==
    /\ pc = "done"
    /\ \E h2 \in GridRows :
          /\ IsHeaderRow(h2) /\ OpenAt(h2)
          /\ LastHeaderBefore(h2) + 1 < h2
          /\ ~HasDefect(iloc(file, h2 - 1))
          /\ h2 + 1 < Len(file)
          /\ Len(sections) = 2

\* a row the last span may end at: its first cell is not empty and does
\* not start with the total or the prepared-on phrase
IsLastDataRow(r) ==
    LET c == file[r + 1][1] IN
    /\ c # NaN
    /\ \E k \in 1..Len(c) : c[k] \notin {" ", "\t"}
    /\ c[1] \notin {"Itogo", "Data sostavleniya"}

\* C21: when the rows run out while a section is open, the last span ends
\* at the last row at or after its start whose first cell is not empty and
\* does not start with the total or the prepared-on phrase; its end_row is
\* never a blank, a total or a prepared-on row.
C21_LastSpanEnd ==
    (Located /\ OpenAt(Len(file))) =>
        LET span == sections[Len(sections)]
            Q == {r \in GridRows : r >= SpanStart(span) /\ IsLastDataRow(r)}
        IN  /\ SpanStart(span) = LastHeaderBefore(Len(file)) + 1
            /\ SpanEnd(span) \in Q
            /\ \A r \in Q : r <= SpanEnd(span)

\* the first cell of row r as a label: trimmed, and without its first and
\* last character when these are both double quotes
TrimmedCell(r) ==
    LET c == file[r + 1][1]
        K == {k \in 1..Len(c) : c[k] \notin {" ", "\t"}}
    IN  IF c = NaN \/ K = {} THEN <<>>
        ELSE LET a == CHOOSE k \in K : \A l \in K : k <= l
                 b == CHOOSE k \in K : \A l \in K : l <= k
             IN  [k \in 1..(b - a + 1) |-> c[a + k - 1]]
PairUnquoted(t) ==
    IF Len(t) >= 1 /\ t[1] = "\"" /\ t[Len(t)] = "\""
    THEN [k \in 1..(Len(t) - 2) |-> t[k + 1]]
    ELSE t
\* the labels row r can give, with or without its quotes
LabelsOf(r) ==
    LET t == TrimmedCell(r) IN
    {t, PairUnquoted(t),
     SelectSeq(t, LAMBDA c : c # "\"")}
\* a row a label may come from: first cell not empty, not the header
\* token, not starting with the total phrase
QualifiesForLabel(r) ==
    /\ TrimmedCell(r) # <<>>
    /\ TrimmedCell(r) # <<"Emitent">>
    /\ file[r + 1][1][1] # "Itogo"
LabelWindow(h) ==
    {r \in GridRows : h - 3 <= r /\ r < h /\ QualifiesForLabel(r)}
\* the label of the section the header row h opens
LabelsAt(h) ==
    {sections[k][1] : k \in {l \in 1..Len(sections) :
                                SpanStart(sections[l]) = h + 1}}

\* C22: the label of the section opened at header row h is the first-cell
\* text of the qualifying row nearest to h among h-1, h-2, h-3.
C22_NearestLabel ==
    Located =>
        \A h \in GridRows :
            (IsHeaderRow(h) /\ LabelWindow(h) # {}) =>
                LET nearest == CHOOSE r \in LabelWindow(h) :
                                   \A q \in LabelWindow(h) : q <= r
                IN  LabelsAt(h) # {} /\ LabelsAt(h) \subseteq LabelsOf(nearest)

\* C23: no label is taken from a row whose first cell is empty, is the
\* header token or starts with the total phrase; when none of the three
\* rows above the header row qualifies, the label is 'Unknown'.
C23_LabelFromQualifyingRow ==
    Located =>
        \A h \in GridRows :
            IsHeaderRow(h) =>
                \A label \in LabelsAt(h) :
                    /\ label # <<>>
                    /\ label # <<"Emitent">>
                    /\ label[1] # "Itogo"
                    /\ LabelWindow(h) = {} => label = <<"Unknown">>

\* C24 as claimed: no label starts or ends with a double quote.
C24_NoQuoteAtEitherEnd ==
    \A k \in 1..Len(sections) :
        LET label == sections[k][1] IN
        label # <<>> => label[1] # "\"" /\ label[Len(label)] # "\""

\* C24 as the code has it: a label is 'Unknown' or the trimmed first cell
\* of one of the three rows above the header row, without its first and
\* last character when both are double quotes, and unchanged otherwise: a
\* quote on one side only stays.
C24_PairOfQuotesRemoved ==
    Located =>
        \A h \in GridRows :
            IsHeaderRow(h) =>
                \A label \in LabelsAt(h) :
                    \/ label = <<"Unknown">>
                    \/ \E r \in GridRows :
                          /\ h - 3 <= r /\ r < h
                          /\ TrimmedCell(r) # <<>>
                          /\ label = PairUnquoted(TrimmedCell(r))

C24_Witness ==
    /\ Located
    /\ \E k \in 1..Len(sections) : sections[k][1] = <<"Obligacii">>
    /\ \E k \in 1..Len(sections) : sections[k][1] = <<"\"", "Akcii">>

\* the rows below the start of the stocks table that follow a row whose
\* first cell holds 'Itogo'
RowsAfterTotal(d, start_row) ==
    {r \in (start_row + 1)..(Len(d) - 1) :
        \E t \in (start_row + 1)..(r - 1) :
            /\ notna(cell_at(d, t, 0))
            /\ Contains(<<"Itogo">>, str(cell_at(d, t, 0)))}

\* C25: a row whose first cell holds 'Itogo' is skipped and extraction goes
\* on: every valid data row that follows it in the stocks table is a
\* position of the statement.
C25_TotalRowSkipped ==
    (Parsed /\ outcome.kind = "BrokerStatement" /\ StocksStartRow(file) # None) =>
        \A r \in RowsAfterTotal(file, StocksStartRow(file)[1]) :
            LET p == create_position_from_row(iloc(file, r)) IN
            p # None =>
                \E k \in 1..Len(outcome.positions) : outcome.positions[k] = p[1]

Answered == pc = "api" /\ reply # None

\* C26: the security-info endpoint answers 404 when the service returned no
\* info for the secid, and answers 500 only when the lookup raised.
C26_NotFoundIs404 ==
    Answered =>
        /\ info = None => reply[1].status_code = 404
        /\ reply[1].status_code = 500 => request[1].answer.kind = "raises"

\* the rows the bonds pass takes a position from
BondsPassRows(d) ==
    LET start_row == find_section_start(d, SECTION_TITLE) IN
    IF start_row = None THEN {}
    ELSE {r \in (start_row[1] + 1)..(find_section_end(d, start_row[1] + 2) - 1) :
            BondsOfRow(d, r) # <<>>}

StocksLoopSkips(d, r) ==
    isna(cell_at(d, r, 0)) \/ Contains(<<"Emitent">>, str(cell_at(d, r, 0)))

StocksLoopLeavesAt(d, r) ==
    ~StocksLoopSkips(d, r) /\ Contains(<<"Itogo">>, str(cell_at(d, r, 0)))

\* the rows the stocks pass takes a position from
StocksPassRows(d) ==
    LET start_row == StocksStartRow(d) IN
    IF start_row = None THEN {}
    ELSE {r \in (start_row[1] + 1)..(Len(d) - 1) :
            /\ \A t \in (start_row[1] + 1)..r : ~StocksLoopLeavesAt(d, t)
            /\ ~StocksLoopSkips(d, r)
            /\ create_position_from_row(iloc(d, r)) # None}

PositionRows(d) ==
    {r \in 0..(Len(d) - 1) : create_position_from_row(iloc(d, r)) # None}

\* C27: within one parse a grid row gives at most one position: no row is
\* taken by the bonds pass and by the stocks pass, and the statement has no
\* more positions than the grid has rows that give a position.
C27_RowExtractedOnce ==
    (Parsed /\ outcome.kind = "BrokerStatement") =>
        /\ BondsPassRows(file) \cap StocksPassRows(file) = {}
        /\ Len(outcome.positions) <= Cardinality(PositionRows(file))

\* C28 as claimed: the three type predicates exclude one another, and the
\* counts of a summary add up to no more than its number of positions.
C28_CountsWithinTotal ==
    summary # None =>
        /\ \A k \in 1..Len(outcome.positions) :
              LET p == outcome.positions[k] IN
              /\ ~(is_bond(p) /\ is_stock(p))
              /\ ~(is_bond(p) /\ is_etf(p))
              /\ ~(is_stock(p) /\ is_etf(p))
        /\ summary[1].bonds + summary[1].stocks + summary[1].etfs
              <= summary[1].total_positions

\* the positions whose type text holds the bond and the stock marker
BondAndStock(positions) ==
    {k \in 1..Len(positions) :
        /\ ExpectedBond(positions[k].security_type)
        /\ ExpectedStock(positions[k].security_type)}

\* the positions whose type text makes them a bond, a stock or a fund
Classified(positions) ==
    {k \in 1..Len(positions) :
        \/ ExpectedBond(positions[k].security_type)
        \/ ExpectedStock(positions[k].security_type)
        \/ ExpectedEtf(positions[k].security_type)}

\* C28 as the code has it: a fund is neither a bond nor a stock; a position
\* whose type text holds both markers is a bond and a stock and is counted
\* twice, so the counts add up to the number of classified positions plus
\* the number of such positions, which is within the total when there is
\* none of them.
C28_FundExclusive ==
    summary # None =>
        LET s == summary[1]
            both == Cardinality(BondAndStock(outcome.positions))
        IN  /\ \A k \in 1..Len(outcome.positions) :
                  is_etf(outcome.positions[k]) =>
                      /\ ~is_bond(outcome.positions[k])
                      /\ ~is_stock(outcome.positions[k])
            /\ s.bonds + s.stocks + s.etfs
                  = Cardinality(Classified(outcome.positions)) + both
            /\ s.bonds + s.stocks + s.etfs <= s.total_positions + both

C28_Witness ==
    /\ summary # None
    /\ BondAndStock(outcome.positions) # {}
    /\ \E k \in 1..Len(outcome.positions) : is_etf(outcome.positions[k])
    /\ summary[1].bonds + summary[1].stocks + summary[1].etfs
          > summary[1].total_positions

\* C29: no header row comes out as data: no row of the table
\* merge_csv_tables writes and no position of a statement the parser
\* returns has the header token as its issuer.
C29_NoHeaderAsData ==
    /\ (pc = "done" /\ merged.kind = "saved") =>
          \A k \in 1..Len(merged.positions) :
              merged.positions[k][1] # header_pattern
    /\ outcome.kind = "BrokerStatement" =>
          \A k \in 1..Len(outcome.positions) :
              outcome.positions[k].issuer # header_pattern

\* the number of create_position calls made for portfolio p
CreatedFor(p) == Cardinality({k \in 1..Len(created) : created[k] = p})

\* C30: after any sequence of create_portfolio and create_position calls
\* every stored position belongs to a stored portfolio, and the summary of
\* a portfolio counts the positions created for it.
C30_ReferentialIntegrity ==
    pc = "portfolio" =>
        /\ \A k \in 1..Len(get_all_positions(managers[1])) :
              dict_has(managers[1].portfolios_store,
                       get_all_positions(managers[1])[k].portfolio_id)
        /\ (last.op = "get_portfolio_summary" /\ last.result # None) =>
              last.result[1].positions_count = CreatedFor(last.arg)

====
